---- MODULE Spec2Model ----
(***************************************************************************)
(* Session state machine of libbitcoin-network (src/sessions/session.cpp): *)
(* session::start, the stop subscription on the p2p facade, and the        *)
(* channel registration sequence register_channel -> handle_pend ->        *)
(* handle_channel_start -> handle_handshake -> handle_is_pending ->        *)
(* handle_start, with do_unpend for outbound sessions and do_remove as the *)
(* channel's stop handler.                                                 *)
(*                                                                         *)
(* Every handler of session.cpp is an operator that yields the calls the   *)
(* handler makes, in program order, and the step the registration waits in *)
(* afterwards.  The collaborators (channel, pending table, p2p facade) are *)
(* given by Exec, which executes one call against the collaborator state,  *)
(* and by one completion action per asynchronous operation.                *)
(***************************************************************************)
EXTENDS Integers, Sequences, FiniteSets, TLC

\* ------------------------------------------------------------------ bounds
MaxNonce    == 2
MaxStarts   == 2

\* The two kinds of session the constructor distinguishes (outgoing or not).
Sessions == {"inbound", "outbound"}
\* Two channels: registrations meet only in the pending table, where one
\* channel is stored and the other is stored or looked up against it.
Channels == {"c1", "c2"}
Nonces   == 1..MaxNonce          \* results of nonzero_pseudo_random()
\* The acceptors and connectors the sessions create.
NumResources == 2
Resources == 1..NumResources

\* ------------------------------------------------------------- error codes
success          == "success"
service_stopped  == "service_stopped"
operation_failed == "operation_failed"
accept_failed    == "accept_failed"
\* Codes that originate in the collaborators: the pending table and the peer
\* store, channel->start, the version protocol, the transport's stop.
address_in_use   == "address_in_use"
channel_timeout  == "channel_timeout"
bad_stream       == "bad_stream"
channel_stopped  == "channel_stopped"

\* bc::peer_minimum_version, compared against in handle_is_pending.
peer_minimum_version == 31402
VersionValues == {peer_minimum_version - 1, peer_minimum_version}
NoVersion == [value |-> 0, nonce |-> 0]

\* ------------------------------------------------------------------- state
VARIABLES
    stopped_,      \* session::stopped_, per session
    incoming_,     \* session::incoming_, per session
    notify_,       \* session::notify_, per session
    starts,        \* number of session::start calls made, per session
    slog,          \* per session: the calls session::start has made, in order
    net_stopped,   \* the facade's stop subscriber has been stopped
    net_subs,      \* per session: do_stop_session handlers held by the facade
    pending,       \* the pending table: the set of stored channels
    peers,         \* the peer store: channels network.store has accepted
    pc,            \* per channel: the asynchronous step its registration waits in
    owner,         \* per channel: the session it was registered on, or "none"
    bound,         \* per channel: the handle_started the pipeline carries
    version,       \* per channel: channel->version()
    chan,          \* per channel: nonce, notify, stopped, subscriptions, log
    rsrc,          \* per acceptor or connector: kind, stop handlers, stops, log
    hub,           \* per message kind: its subscriber, stopped flag and waiters
    hnd,           \* per message handler: when it subscribed, what it received
    ret,           \* the code the last message_subscriber::load returned
    bcast          \* a broadcast under way: its code, the next relay it makes

vars == <<stopped_, incoming_, notify_, starts, slog, net_stopped, net_subs,
          pending, peers, pc, owner, bound, version, chan, rsrc,
          hub, hnd, ret, bcast>>
sessionVars == <<stopped_, incoming_, notify_, starts, slog, net_stopped, net_subs>>
hubVars == <<hub, hnd, ret, bcast>>

\* A call made by the session (or a callback delivered to it): the operation,
\* the code it carries, the number it carries.
Call(op, ec, n) == [op |-> op, ec |-> ec, n |-> n]

NewChannel == [nonce |-> 0, notify |-> "unset", stopped |-> FALSE, subs |-> 0,
               unpending |-> FALSE, removing |-> FALSE, log |-> <<>>]

\* ------------------------------------------------- handlers of session.cpp
\* What a handler does: the calls it makes, in order, and the asynchronous
\* step the registration waits in when the handler returns.
Result(calls, next) == [calls |-> calls, pc |-> next]

\* session::stopped()
stopped(s) == stopped_[s]

\* do_remove that signals stopped_cb before it requests the removal.
do_remove_signals_first(ec) ==
    << Call("do_remove", ec, 0),
       Call("stopped_cb", ec, 0),
       Call("network.remove", "", 0) >>

\* session::do_remove, the stop handler bound in register_channel.
do_remove(ec) ==
    << Call("do_remove", ec, 0),
       Call("network.remove", "", 0),
       Call("stopped_cb", ec, 0) >>

\* handle_start that subscribes whatever the code.
handle_start_always_subscribes(ec) ==
    << Call("handle_start", ec, 0),
       Call("channel.subscribe_stop", "", 0),
       Call("started_cb", ec, 0) >>

\* handle_start that stops on an error but lacks the else branch.
handle_start_never_subscribes(ec) ==
    << Call("handle_start", ec, 0) >>
    \o (IF ec # success THEN << Call("channel.stop", ec, 0) >> ELSE <<>>)
    \o << Call("started_cb", ec, 0) >>

\* session::handle_start, bound as start_handler in register_channel.
handle_start(ec) ==
    << Call("handle_start", ec, 0) >>
    \o (IF ec # success
          THEN << Call("channel.stop", ec, 0) >>
          ELSE << Call("channel.subscribe_stop", "", 0) >>)
    \o << Call("started_cb", ec, 0) >>

\* do_unpend that signals the caller first and unpends afterwards.
do_unpend_signals_first(ec) ==
    << Call("do_unpend", ec, 0) >>
    \o handle_start(ec)
    \o << Call("channel.set_nonce", "", 0),
          Call("pending.remove", "", 0) >>

\* do_unpend that leaves the nonce as it is.
do_unpend_keeps_nonce(ec) ==
    << Call("do_unpend", ec, 0),
       Call("pending.remove", "", 0) >>
    \o handle_start(ec)

\* session::do_unpend, bound as unpend_handler in register_channel.
do_unpend(ec) ==
    << Call("do_unpend", ec, 0),
       Call("channel.set_nonce", "", 0),
       Call("pending.remove", "", 0) >>
    \o handle_start(ec)

\* Invocation of the handle_started a handler was bound with.
Invoke(handle_started, ec) ==
    IF handle_started = "unpend_handler" THEN do_unpend(ec) ELSE handle_start(ec)

\* session::handle_pend
handle_pend(ec, handle_started) ==
    IF ec # success
      THEN Result(<< Call("handle_pend", ec, 0) >> \o Invoke(handle_started, ec),
                  "done")
      ELSE Result(<< Call("handle_pend", ec, 0), Call("channel.start", "", 0) >>,
                  "start")

\* handle_channel_start that skips the handshake and stores the channel.
handle_channel_start_stores(ec, handle_started) ==
    Result(<< Call("handle_channel_start", ec, 0),
              Call("network.store", "", 0) >>,
           "store")

\* session::handle_channel_start: ec is not examined.
handle_channel_start(ec, handle_started) ==
    Result(<< Call("handle_channel_start", ec, 0),
              Call("attach_protocol_version", "", 0),
              Call("protocol_version.start", "", 0) >>,
           "handshake")

\* handle_is_pending without the loopback rejection.
handle_is_pending_no_loopback(is_pending, v, handle_started) ==
    LET entry == << Call("handle_is_pending",
                         IF is_pending THEN "true" ELSE "false", 0) >>
    IN  IF v.value < peer_minimum_version
          THEN Result(entry \o Invoke(handle_started, accept_failed), "done")
        ELSE Result(entry \o << Call("network.store", "", 0) >>, "store")

\* handle_is_pending without the minimum version test.
handle_is_pending_any_version(is_pending, v, handle_started) ==
    LET entry == << Call("handle_is_pending",
                         IF is_pending THEN "true" ELSE "false", 0) >>
    IN  IF is_pending
          THEN Result(entry \o Invoke(handle_started, accept_failed), "done")
        ELSE Result(entry \o << Call("network.store", "", 0) >>, "store")

\* session::handle_is_pending; v is channel->version().
handle_is_pending(is_pending, v, handle_started) ==
    LET entry == << Call("handle_is_pending",
                         IF is_pending THEN "true" ELSE "false", 0) >>
    IN  IF is_pending
          THEN Result(entry \o Invoke(handle_started, accept_failed), "done")
        ELSE IF v.value < peer_minimum_version
          THEN Result(entry \o Invoke(handle_started, accept_failed), "done")
        ELSE Result(entry \o << Call("network.store", "", 0) >>, "store")

\* handle_handshake that returns on an error without calling handle_started.
handle_handshake_drops_error(ec, incoming, v, handle_started) ==
    LET entry == << Call("handle_handshake", ec, 0) >>
    IN  IF ec # success
          THEN Result(entry, "done")
        ELSE IF incoming
          THEN Result(entry \o << Call("pending.exists", "", v.nonce) >>, "exists")
        ELSE LET r == handle_is_pending(FALSE, v, handle_started)
             IN  Result(entry \o r.calls, r.pc)

\* session::handle_handshake; v is channel->version().
handle_handshake(ec, incoming, v, handle_started) ==
    LET entry == << Call("handle_handshake", ec, 0) >>
    IN  IF ec # success
          THEN Result(entry \o Invoke(handle_started, ec), "done")
        ELSE IF incoming
          THEN Result(entry \o << Call("pending.exists", "", v.nonce) >>, "exists")
        ELSE LET r == handle_is_pending(FALSE, v, handle_started)
             IN  Result(entry \o r.calls, r.pc)

\* register_channel without the stopped() test.
register_channel_unchecked(is_stopped, incoming, notify, n) ==
    IF incoming
      THEN LET r == handle_pend(success, "start_handler")
           IN  [calls |-> r.calls, pc |-> r.pc, bound |-> "start_handler"]
    ELSE [calls |-> << Call("channel.set_notify",
                            IF notify THEN "true" ELSE "false", 0),
                       Call("channel.set_nonce", "", n),
                       Call("pending.store", "", 0) >>,
          pc |-> "pend", bound |-> "unpend_handler"]

\* session::register_channel; n is the value of nonzero_pseudo_random().
register_channel(is_stopped, incoming, notify, n) ==
    IF is_stopped
      THEN [calls |-> handle_start(service_stopped), pc |-> "done",
            bound |-> "start_handler"]
    ELSE IF incoming
      THEN LET r == handle_pend(success, "start_handler")
           IN  [calls |-> r.calls, pc |-> r.pc, bound |-> "start_handler"]
    ELSE [calls |-> << Call("channel.set_notify",
                            IF notify THEN "true" ELSE "false", 0),
                       Call("channel.set_nonce", "", n),
                       Call("pending.store", "", 0) >>,
          pc |-> "pend", bound |-> "unpend_handler"]

\* start without the stopped() precondition.
start_unchecked(is_stopped) ==
    << Call("stopped_ = false", "", 0),
       Call("network.subscribe_stop", "", 0),
       Call("handler", success, 0) >>

\* start that signals success and subscribes afterwards.
start_subscribes_late(is_stopped) ==
    IF ~is_stopped
      THEN << Call("handler", operation_failed, 0) >>
      ELSE << Call("stopped_ = false", "", 0),
              Call("handler", success, 0),
              Call("network.subscribe_stop", "", 0) >>

\* session::start
start(is_stopped) ==
    IF ~is_stopped
      THEN << Call("handler", operation_failed, 0) >>
      ELSE << Call("stopped_ = false", "", 0),
              Call("network.subscribe_stop", "", 0),
              Call("handler", success, 0) >>

\* session::do_stop_session
do_stop_session(ec) == << Call("stopped_ = true", "", 0) >>

\* session::subscribe_stop
subscribe_stop(handler) == << Call("network.subscribe_stop", handler, 0) >>

\* create_acceptor that returns the acceptor without subscribing its stop.
create_acceptor_unsubscribed ==
    << Call("make_shared", "acceptor", 0), Call("return", "acceptor", 0) >>

\* session::create_acceptor
create_acceptor ==
    << Call("make_shared", "acceptor", 0) >>
    \o subscribe_stop("do_stop_acceptor")
    \o << Call("return", "acceptor", 0) >>

\* session::do_stop_acceptor
do_stop_acceptor(ec) == << Call("acceptor.stop", "", 0) >>

\* session::create_connector
create_connector ==
    << Call("make_shared", "connector", 0) >>
    \o subscribe_stop("do_stop_connector")
    \o << Call("return", "connector", 0) >>

\* session::do_stop_connector
do_stop_connector(ec) == << Call("connector.stop", "", 0) >>

\* ------------------------------------------------------- the collaborators
RECURSIVE Repeat(_, _)
Repeat(calls, n) == IF n = 0 THEN <<>> ELSE calls \o Repeat(calls, n - 1)

\* One call against a channel st.  Setters assign.  stop stops the channel
\* once and relays the code to the stop subscriptions; subscribe_stop on a
\* stopped channel invokes the handler at once with service_stopped.
\* pending.remove and network.remove are requests that complete later.
RECURSIVE Run(_, _)
Exec(st, call) ==
    LET logged == [st EXCEPT !.log = Append(@, call)]
    IN  CASE call.op = "channel.set_notify" ->
               [logged EXCEPT !.notify = call.ec]
          [] call.op = "channel.set_nonce" ->
               [logged EXCEPT !.nonce = call.n]
          [] call.op = "channel.stop" ->
               IF st.stopped THEN logged
               ELSE Run([logged EXCEPT !.stopped = TRUE, !.subs = 0],
                        Repeat(do_remove(call.ec), st.subs))
          [] call.op = "channel.subscribe_stop" ->
               IF st.stopped THEN Run(logged, do_remove(service_stopped))
               ELSE [logged EXCEPT !.subs = @ + 1]
          [] call.op = "pending.remove" ->
               [logged EXCEPT !.unpending = TRUE]
          [] call.op = "network.remove" ->
               [logged EXCEPT !.removing = TRUE]
          [] OTHER -> logged

Run(st, calls) ==
    IF calls = <<>> THEN st ELSE Run(Exec(st, Head(calls)), Tail(calls))

\* One call of session::start or do_stop_session against the session st
\* (stopped_, its handlers held by the facade, its log).  subscribe_stop on a
\* stopped facade invokes the handler at once.
RECURSIVE SRun(_, _, _)
SExec(st, call, facade_stopped) ==
    LET logged == [st EXCEPT !.log = Append(@, call)]
    IN  CASE call.op = "stopped_ = false" -> [logged EXCEPT !.stopped = FALSE]
          [] call.op = "stopped_ = true"  -> [logged EXCEPT !.stopped = TRUE]
          [] call.op = "network.subscribe_stop" ->
               IF facade_stopped
                 THEN SRun(logged, do_stop_session(service_stopped), facade_stopped)
                 ELSE [logged EXCEPT !.subs = @ + 1]
          [] OTHER -> logged

SRun(st, calls, facade_stopped) ==
    IF calls = <<>> THEN st
    ELSE SRun(SExec(st, Head(calls), facade_stopped), Tail(calls), facade_stopped)

\* An acceptor or connector not yet created.
NewResource == [kind |-> "none", subs |-> << >>, stops |-> 0, log |-> << >>]

\* The stop handler a session bound under the name handler.
StopHandler(handler, ec) ==
    IF handler = "do_stop_acceptor" THEN do_stop_acceptor(ec)
    ELSE do_stop_connector(ec)

\* One call of create_acceptor, create_connector or a stop handler against
\* the resource st.  subscribe_stop on a stopped facade invokes the handler at
\* once; stop() of the resource is counted.
RECURSIVE RRun(_, _, _)
RExec(st, call, facade_stopped) ==
    LET logged == [st EXCEPT !.log = Append(@, call)]
    IN  CASE call.op = "make_shared" -> [logged EXCEPT !.kind = call.ec]
          [] call.op = "network.subscribe_stop" ->
               IF facade_stopped
                 THEN RRun(logged, StopHandler(call.ec, service_stopped),
                           facade_stopped)
                 ELSE [logged EXCEPT !.subs = Append(@, call.ec)]
          [] call.op \in {"acceptor.stop", "connector.stop"} ->
               [logged EXCEPT !.stops = @ + 1]
          [] OTHER -> logged

RRun(st, calls, facade_stopped) ==
    IF calls = << >> THEN st
    ELSE RRun(RExec(st, Head(calls), facade_stopped), Tail(calls), facade_stopped)

\* The stop signal reaches the handlers the facade holds for the resource st.
RECURSIVE RelayStop(_, _)
RelayStop(st, handlers) ==
    IF handlers = << >> THEN st
    ELSE RelayStop(RRun(st, StopHandler(Head(handlers), service_stopped), TRUE),
                   Tail(handlers))

\* pending_channels::exists: some stored channel carries the nonce.
safe_exists(n) == \E d \in pending : chan[d].nonce = n

\* pending_channels::store: the code the store of c completes with; a second
\* store of a nonce observes the first and fails.
safe_store(c) == IF safe_exists(chan[c].nonce) THEN address_in_use ELSE success

\* -------------------------------------------------- message_subscriber.cpp
\* The subscribers the constructor initializes, one per message kind.
KnownKinds ==
    << "address", "alert", "block", "filter_add", "filter_clear",
       "filter_load", "get_address", "get_blocks", "get_data", "get_headers",
       "headers", "inventory", "memory_pool", "merkle_block", "not_found",
       "ping", "pong", "reject", "transaction", "verack", "version" >>
Subscribers == {KnownKinds[i] : i \in DOMAIN KnownKinds}
\* The values of message_type load is called with: the kinds, the unknown
\* sentinel and a value that names no kind.
MessageTypes == Subscribers \cup {"unknown", "unrecognized"}
\* The handlers that subscribe to the hub, each once.
Handlers == {"h1", "h2"}
\* A stream holds bytes the decoder of the kind accepts, or bytes it rejects.
Streams == {"wellformed", "malformed"}
\* The codes broadcast is called with.
BroadcastCodes == {service_stopped, channel_stopped}

not_found == "not_found"
\* nullptr, the default value of a message pointer.
NoValue == [kind |-> "none"]
\* The decoded message of a kind.
Payload(k) == [kind |-> k]

\* A call on the subscriber of a kind.
HCall(op, k, ec, v) == [op |-> op, kind |-> k, ec |-> ec, value |-> v]

\* The decoder of a kind applied to a stream.
Decode(k, stream) ==
    IF stream = "wellformed" THEN [code |-> success, value |-> Payload(k)]
    ELSE [code |-> bad_stream, value |-> NoValue]

\* relay<Message>(stream, subscriber): decode, relay the code and the
\* message to the subscriber, return the code.
relay(stream, subscriber) ==
    LET d == Decode(subscriber, stream)
    IN  [calls |-> << HCall("relay", subscriber, d.code, d.value) >>,
         code |-> d.code]

\* handle<Message>(stream, subscriber): as relay, for the block kind.
handle(stream, subscriber) ==
    LET d == Decode(subscriber, stream)
    IN  [calls |-> << HCall("relay", subscriber, d.code, d.value) >>,
         code |-> d.code]

\* RELAY_CODE(code, value)
RELAY_CODE(code, value) == HCall("relay", value, code, NoValue)
\* CASE_HANDLE_MESSAGE(stream, value)
CASE_HANDLE_MESSAGE(stream, value) == handle(stream, value)
\* CASE_RELAY_MESSAGE(stream, value)
CASE_RELAY_MESSAGE(stream, value) == relay(stream, value)
\* START_SUBSCRIBER(value), STOP_SUBSCRIBER(value)
START_SUBSCRIBER(value) == HCall("start", value, "", NoValue)
STOP_SUBSCRIBER(value) == HCall("stop", value, "", NoValue)

\* The statements of message_subscriber::broadcast, in order.
broadcast_values ==
    << "address", "alert", "block", "filter_add", "filter_clear",
       "filter_load", "get_address", "get_blocks", "get_data", "get_headers",
       "headers", "inventory", "memory_pool", "merkle_block", "not_found",
       "ping", "pong", "reject", "transaction", "verack", "version" >>

\* broadcast that leaves out the pong subscriber.
broadcast_skips_pong(ec) ==
    LET values == SelectSeq(broadcast_values, LAMBDA v : v # "pong")
    IN  [i \in DOMAIN values |-> RELAY_CODE(ec, values[i])]

\* broadcast that relays from the last subscriber to the first.
broadcast_reversed(ec) ==
    [i \in DOMAIN broadcast_values |->
       RELAY_CODE(ec, broadcast_values[Len(broadcast_values) + 1 - i])]

\* message_subscriber::broadcast
broadcast(ec) ==
    [i \in DOMAIN broadcast_values |-> RELAY_CODE(ec, broadcast_values[i])]

\* The case labels of the switch in message_subscriber::load.
load_cases ==
    [address |-> "relay", alert |-> "relay", block |-> "handle",
     filter_add |-> "relay", filter_clear |-> "relay", filter_load |-> "relay",
     get_address |-> "relay", get_blocks |-> "relay", get_data |-> "relay",
     get_headers |-> "relay", headers |-> "relay", inventory |-> "relay",
     memory_pool |-> "relay", merkle_block |-> "relay", not_found |-> "relay",
     ping |-> "relay", pong |-> "relay", reject |-> "relay",
     transaction |-> "relay", verack |-> "relay", version |-> "relay"]

\* load whose default case relays to the version subscriber.
load_default_relays(type, stream) ==
    IF type \notin DOMAIN load_cases
      THEN [calls |-> CASE_RELAY_MESSAGE(stream, "version").calls,
            code |-> not_found]
    ELSE IF load_cases[type] = "handle"
      THEN CASE_HANDLE_MESSAGE(stream, type)
    ELSE CASE_RELAY_MESSAGE(stream, type)

\* load whose switch has no case for block.
load_without_block(type, stream) ==
    IF type \notin DOMAIN load_cases \ {"block"}
      THEN [calls |-> << >>, code |-> not_found]
    ELSE CASE_RELAY_MESSAGE(stream, type)

\* message_subscriber::load
load(type, stream) ==
    IF type \notin DOMAIN load_cases
      THEN [calls |-> << >>, code |-> not_found]
    ELSE IF load_cases[type] = "handle"
      THEN CASE_HANDLE_MESSAGE(stream, type)
    ELSE CASE_RELAY_MESSAGE(stream, type)

\* message_subscriber::start
message_subscriber_start ==
    [i \in DOMAIN KnownKinds |-> START_SUBSCRIBER(KnownKinds[i])]

\* message_subscriber::stop
message_subscriber_stop ==
    [i \in DOMAIN KnownKinds |-> STOP_SUBSCRIBER(KnownKinds[i])]

\* ------------------------------------------------ the typed subscribers
\* A subscriber as constructed: stopped, no waiters.
NewSubscriber == [stopped |-> TRUE, waiters |-> << >>]
\* A handler that has not subscribed.  phase and due are set when it
\* subscribes: whether a broadcast had not begun, was under way or was over,
\* and whether a broadcast has still to relay to the subscriber.
NewHandler == [subscribed |-> FALSE, phase |-> "none", due |-> FALSE,
               got |-> << >>]

\* The subscriber invokes the waiters with (ec, v), each once.
RECURSIVE Deliver(_, _, _, _, _)
Deliver(hn, waiters, by, ec, v) ==
    IF waiters = << >> THEN hn
    ELSE Deliver([hn EXCEPT ![Head(waiters)].got =
                     Append(@, [by |-> by, code |-> ec, value |-> v])],
                 Tail(waiters), by, ec, v)

\* One call on a subscriber against st, the subscribers and the handlers.
\* relay swaps the waiter list out and invokes each waiter; stop drains the
\* waiters with service_stopped; subscribe on a stopped subscriber invokes
\* the handler at once with service_stopped and the default value.
HExec(st, call) ==
    LET sub == st.hub[call.kind]
    IN  CASE call.op = "relay" ->
               [hub |-> [st.hub EXCEPT ![call.kind].waiters = << >>],
                hnd |-> Deliver(st.hnd, sub.waiters, "relay", call.ec, call.value)]
          [] call.op = "start" ->
               [st EXCEPT !.hub[call.kind].stopped = FALSE]
          [] call.op = "stop" ->
               [hub |-> [st.hub EXCEPT ![call.kind] =
                           [stopped |-> TRUE, waiters |-> << >>]],
                hnd |-> Deliver(st.hnd, sub.waiters, "stop", service_stopped,
                                NoValue)]
          [] call.op = "subscribe" ->
               IF sub.stopped
                 THEN [st EXCEPT !.hnd = Deliver(@, << call.value >>, "subscribe",
                                                 service_stopped, NoValue)]
                 ELSE [st EXCEPT !.hub[call.kind].waiters = Append(@, call.value)]

RECURSIVE HRun(_, _)
HRun(st, calls) ==
    IF calls = << >> THEN st ELSE HRun(HExec(st, Head(calls)), Tail(calls))

\* ----------------------------------------------------------------- actions
Init ==
    /\ stopped_ = [s \in Sessions |-> TRUE]
    /\ incoming_ = [s \in Sessions |-> s = "inbound"]
    \* notify_ is read by register_channel on the outbound path alone.
    /\ notify_ \in {f \in [Sessions -> BOOLEAN] : f["inbound"]}
    /\ starts = [s \in Sessions |-> 0]
    /\ slog = [s \in Sessions |-> <<>>]
    /\ net_stopped = FALSE
    /\ net_subs = [s \in Sessions |-> 0]
    /\ pending = {}
    /\ peers = {}
    /\ pc = [c \in Channels |-> "new"]
    /\ owner = [c \in Channels |-> "none"]
    /\ bound = [c \in Channels |-> "none"]
    /\ version = [c \in Channels |-> NoVersion]
    /\ chan = [c \in Channels |-> NewChannel]
    /\ rsrc = [r \in Resources |-> NewResource]
    /\ hub = [k \in Subscribers |-> NewSubscriber]
    /\ hnd = [h \in Handlers |-> NewHandler]
    /\ ret = "none"
    /\ bcast = [pc |-> 0, code |-> "none"]

\* A continuation that tests stopped() and ends the registration with
\* service_stopped when the session has stopped.
Continue_checks_stopped(c, r) ==
    IF owner[c] \in Sessions /\ stopped_[owner[c]]
      THEN /\ chan' = [chan EXCEPT ![c] =
                         Run(@, Invoke(bound[c], service_stopped))]
           /\ pc' = [pc EXCEPT ![c] = "done"]
      ELSE /\ chan' = [chan EXCEPT ![c] = Run(@, r.calls)]
           /\ pc' = [pc EXCEPT ![c] = r.pc]

\* The registration of c continues with the calls and the step of r.
Continue(c, r) ==
    /\ chan' = [chan EXCEPT ![c] = Run(@, r.calls)]
    /\ pc' = [pc EXCEPT ![c] = r.pc]

\* session.start(handler)
Start(s) ==
    /\ starts[s] < MaxStarts
    /\ starts' = [starts EXCEPT ![s] = @ + 1]
    /\ LET st == SRun([stopped |-> stopped_[s], subs |-> net_subs[s],
                       log |-> slog[s]], start(stopped(s)), net_stopped)
       IN  /\ stopped_' = [stopped_ EXCEPT ![s] = st.stopped]
           /\ net_subs' = [net_subs EXCEPT ![s] = st.subs]
           /\ slog' = [slog EXCEPT ![s] = st.log]
    /\ UNCHANGED <<incoming_, notify_, net_stopped, pending, peers, pc, owner,
                   bound, version, chan, rsrc, hubVars>>

\* The facade's stop signal: every subscribed handler is invoked, once.
NetworkStop ==
    /\ ~net_stopped
    /\ net_stopped' = TRUE
    /\ LET st(s) == SRun([stopped |-> stopped_[s], subs |-> 0, log |-> slog[s]],
                         Repeat(do_stop_session(service_stopped), net_subs[s]),
                         TRUE)
       IN  /\ stopped_' = [s \in Sessions |-> st(s).stopped]
           /\ slog' = [s \in Sessions |-> st(s).log]
    /\ net_subs' = [s \in Sessions |-> 0]
    /\ rsrc' = [r \in Resources |->
                  RelayStop([rsrc[r] EXCEPT !.subs = << >>], rsrc[r].subs)]
    /\ UNCHANGED <<incoming_, notify_, starts, pending, peers, pc, owner,
                   bound, version, chan, hubVars>>

\* session.register_channel(channel, handle_started, handle_stopped) on s.
RegisterChannel(s, c) ==
    /\ pc[c] = "new"
    /\ owner' = [owner EXCEPT ![c] = s]
    /\ \E n \in Nonces :
         LET r == register_channel(stopped(s), incoming_[s], notify_[s], n)
             entry == << Call("register_channel",
                              IF stopped_[s] THEN "stopped" ELSE "running", 0) >>
         IN  /\ Continue(c, Result(entry \o r.calls, r.pc))
             /\ bound' = [bound EXCEPT ![c] = r.bound]
    /\ UNCHANGED <<sessionVars, pending, peers, version, rsrc, hubVars>>

\* pending_.store completes: the channel is stored unless a stored channel
\* carries its nonce.
PendingStoreDone(c) ==
    /\ pc[c] = "pend"
    /\ LET ec == safe_store(c)
       IN  /\ pending' = IF ec = success THEN pending \cup {c} ELSE pending
           /\ Continue(c, handle_pend(ec, bound[c]))
    /\ UNCHANGED <<sessionVars, peers, owner, bound, version, rsrc, hubVars>>

\* channel->start completes.
ChannelStartDone(c) ==
    /\ pc[c] = "start"
    /\ \E ec \in {success, channel_timeout} :
         Continue(c, handle_channel_start(ec, bound[c]))
    /\ UNCHANGED <<sessionVars, pending, peers, owner, bound, version, rsrc,
                   hubVars>>

\* What the peer may advertise to a channel of session s.  version().nonce is
\* read by handle_handshake on the inbound path alone.
PeerVersions(s) ==
    [value : VersionValues, nonce : IF incoming_[s] THEN 0..MaxNonce ELSE {0}]

\* protocol_version completes; on success channel->version() is the peer's.
HandshakeDone(c) ==
    /\ pc[c] = "handshake"
    /\ \E ec \in {success, bad_stream} :
       \E v \in PeerVersions(owner[c]) :
         LET peer == IF ec = success THEN v ELSE version[c]
         IN  /\ version' = [version EXCEPT ![c] = peer]
             /\ Continue(c, handle_handshake(ec, incoming_[owner[c]], peer,
                                             bound[c]))
    /\ UNCHANGED <<sessionVars, pending, peers, owner, bound, rsrc, hubVars>>

\* pending_.exists completes.
PendingExistsDone(c) ==
    /\ pc[c] = "exists"
    /\ Continue(c, handle_is_pending(safe_exists(version[c].nonce), version[c],
                                     bound[c]))
    /\ UNCHANGED <<sessionVars, pending, peers, owner, bound, version, rsrc,
                   hubVars>>

\* network_.store completes.
NetworkStoreDone(c) ==
    /\ pc[c] = "store"
    /\ \E ec \in {success, address_in_use} :
         /\ peers' = IF ec = success THEN peers \cup {c} ELSE peers
         /\ Continue(c, Result(Invoke(bound[c], ec), "done"))
    /\ UNCHANGED <<sessionVars, pending, owner, bound, version, rsrc, hubVars>>

\* pending_.remove completes; session::handle_unpend only logs.
PendingRemoveDone(c) ==
    /\ chan[c].unpending
    /\ pending' = pending \ {c}
    /\ chan' = [chan EXCEPT ![c] =
                  Run([@ EXCEPT !.unpending = FALSE],
                      << Call("handle_unpend", success, 0) >>)]
    /\ UNCHANGED <<sessionVars, peers, pc, owner, bound, version, rsrc,
                   hubVars>>

\* network_.remove completes; session::handle_remove only logs.
NetworkRemoveDone(c) ==
    /\ chan[c].removing
    /\ peers' = peers \ {c}
    /\ chan' = [chan EXCEPT ![c] =
                  Run([@ EXCEPT !.removing = FALSE],
                      << Call("handle_remove", success, 0) >>)]
    /\ UNCHANGED <<sessionVars, pending, pc, owner, bound, version, rsrc,
                   hubVars>>

\* The transport stops the channel (the peer disconnects, a timer fires):
\* the channel's stop subscriptions are invoked with channel_stopped.
ChannelStops(c) ==
    /\ ~chan[c].stopped
    /\ chan' = [chan EXCEPT ![c] =
                  Run([@ EXCEPT !.stopped = TRUE, !.subs = 0],
                      Repeat(do_remove(channel_stopped), @.subs))]
    /\ UNCHANGED <<sessionVars, pending, peers, pc, owner, bound, version,
                   rsrc, hubVars>>

\* The first start of a session.
FirstStart(s) ==
    /\ starts[s] = 0
    /\ Start(s)

\* The registration sequence, each session started at most once.
Next ==
    \/ \E s \in Sessions : FirstStart(s)
    \/ NetworkStop
    \/ \E s \in Sessions, c \in Channels : RegisterChannel(s, c)
    \/ \E c \in Channels : PendingStoreDone(c)
    \/ \E c \in Channels : ChannelStartDone(c)
    \/ \E c \in Channels : HandshakeDone(c)
    \/ \E c \in Channels : PendingExistsDone(c)
    \/ \E c \in Channels : NetworkStoreDone(c)
    \/ \E c \in Channels : PendingRemoveDone(c)
    \/ \E c \in Channels : NetworkRemoveDone(c)
    \/ \E c \in Channels : ChannelStops(c)

Spec == Init /\ [][Next]_vars

\* The start sequence: sessions started and started again, the facade stopped.
NextStart ==
    \/ \E s \in Sessions : Start(s)
    \/ NetworkStop
    \/ \E s \in Sessions, c \in Channels : RegisterChannel(s, c)

\* The registration sequence up to started_cb: the calls of the session and
\* the completions of the calls the pipeline waits for.
NextLive ==
    \/ \E s \in Sessions : FirstStart(s)
    \/ NetworkStop
    \/ \E s \in Sessions, c \in Channels : RegisterChannel(s, c)
    \/ \E c \in Channels : PendingStoreDone(c)
    \/ \E c \in Channels : ChannelStartDone(c)
    \/ \E c \in Channels : HandshakeDone(c)
    \/ \E c \in Channels : PendingExistsDone(c)
    \/ \E c \in Channels : NetworkStoreDone(c)
    \/ \E c \in Channels : PendingRemoveDone(c)

\* That sequence when every collaborator invokes the completion callback of
\* every call it was given.
SpecLive ==
    /\ Init
    /\ [][NextLive]_vars
    /\ \A c \in Channels :
         /\ WF_vars(PendingStoreDone(c))
         /\ WF_vars(ChannelStartDone(c))
         /\ WF_vars(HandshakeDone(c))
         /\ WF_vars(PendingExistsDone(c))
         /\ WF_vars(NetworkStoreDone(c))

SpecStart == Init /\ [][NextStart]_vars

\* Idle, Running or Stopping: the state of session s.
SessionState(s) ==
    IF ~stopped_[s] THEN "running"
    ELSE IF \E i \in DOMAIN slog[s] : slog[s][i].op = "stopped_ = true"
      THEN "stopping"
    ELSE "idle"

\* Session s creates the resource r by the calls of create; resources are
\* taken in order.
Create(s, r, create) ==
    /\ rsrc[r].log = << >>
    /\ \A q \in Resources : q < r => rsrc[q].log # << >>
    /\ rsrc' = [rsrc EXCEPT ![r] =
                  RRun(@, << Call("create", SessionState(s), 0) >> \o create,
                       net_stopped)]
    /\ UNCHANGED <<sessionVars, pending, peers, pc, owner, bound, version,
                   chan, hubVars>>

\* session.create_acceptor()
CreateAcceptor(s, r) == Create(s, r, create_acceptor)

\* session.create_connector()
CreateConnector(s, r) == Create(s, r, create_connector)

\* Sessions started and stopped while they create acceptors and connectors.
NextResources ==
    \/ \E s \in Sessions : Start(s)
    \/ NetworkStop
    \/ \E s \in Sessions, r \in Resources : CreateAcceptor(s, r)
    \/ \E s \in Sessions, r \in Resources : CreateConnector(s, r)

SpecResources == Init /\ [][NextResources]_vars

\* ------------------------------------------------- actions of the hub
nonHubVars == <<sessionVars, pending, peers, pc, owner, bound, version, chan,
                rsrc>>

\* The position of the subscriber of kind k among the subscribers.
KindIndex(k) == CHOOSE i \in DOMAIN KnownKinds : KnownKinds[i] = k
\* The broadcast under way has made its last relay.
BroadcastOver == bcast.pc > Len(broadcast(bcast.code))

\* The calls are made on the subscribers.
HubCalls(hn, calls) ==
    LET st == HRun([hub |-> hub, hnd |-> hn], calls)
    IN  hub' = st.hub /\ hnd' = st.hnd

\* message_subscriber.start()
HubStart ==
    /\ HubCalls(hnd, message_subscriber_start)
    /\ UNCHANGED <<nonHubVars, ret, bcast>>

\* message_subscriber.stop()
HubStop ==
    /\ HubCalls(hnd, message_subscriber_stop)
    /\ UNCHANGED <<nonHubVars, ret, bcast>>

\* message_subscriber.subscribe<Message>(handler) with Message of kind k.
Subscribe(h, k) ==
    /\ ~hnd[h].subscribed
    /\ LET phase == IF bcast.pc = 0 THEN "before"
                    ELSE IF BroadcastOver THEN "after" ELSE "during"
           marked == [hnd EXCEPT ![h] = [@ EXCEPT !.subscribed = TRUE,
                                            !.phase = phase,
                                            !.due = bcast.pc <= KindIndex(k)]]
       IN  HubCalls(marked, << HCall("subscribe", k, "", h) >>)
    /\ UNCHANGED <<nonHubVars, ret, bcast>>

\* message_subscriber.load(type, stream)
Load(type, stream) ==
    /\ HubCalls(hnd, load(type, stream).calls)
    /\ ret' = load(type, stream).code
    /\ UNCHANGED <<nonHubVars, bcast>>

\* message_subscriber.broadcast(ec), no other call running beside it.
Broadcast(ec) ==
    /\ HubCalls(hnd, broadcast(ec))
    /\ UNCHANGED <<nonHubVars, ret, bcast>>

\* The hub used by one caller at a time.
NextHub ==
    \/ HubStart
    \/ HubStop
    \/ \E h \in Handlers, k \in Subscribers : Subscribe(h, k)
    \/ \E type \in MessageTypes, stream \in Streams : Load(type, stream)
    \/ \E ec \in BroadcastCodes : Broadcast(ec)

\* The hub is built on its own; the sessions play no part.
InitHub == Init /\ notify_ = [s \in Sessions |-> TRUE]

SpecHub == InitHub /\ [][NextHub]_vars

\* broadcast(ec) is entered on one thread while others subscribe and load.
BroadcastBegin(ec) ==
    /\ bcast.pc = 0
    /\ bcast' = [pc |-> 1, code |-> ec]
    /\ UNCHANGED <<nonHubVars, hub, hnd, ret>>

\* The broadcast under way makes its next relay.
BroadcastRelay ==
    /\ bcast.pc >= 1
    /\ ~BroadcastOver
    /\ HubCalls(hnd, << broadcast(bcast.code)[bcast.pc] >>)
    /\ bcast' = [bcast EXCEPT !.pc = @ + 1]
    /\ UNCHANGED <<nonHubVars, ret>>

\* One broadcast interleaved, relay by relay, with subscribe and load.
NextHubConcurrent ==
    \/ HubStart
    \/ \E h \in Handlers, k \in Subscribers : Subscribe(h, k)
    \/ \E type \in Subscribers : Load(type, "wellformed")
    \/ BroadcastBegin(channel_stopped)
    \/ BroadcastRelay

SpecHubConcurrent == InitHub /\ [][NextHubConcurrent]_vars

\* ------------------------------------------------------ reading the logs
Log(c) == chan[c].log
\* The calls of one operation on channel c, in order.
CallsOf(c, op) == SelectSeq(Log(c), LAMBDA e : e.op = op)
Count(c, op) == Len(CallsOf(c, op))
\* The positions of an operation in the log of c.
At(c, op) == {i \in DOMAIN Log(c) : Log(c)[i].op = op}
\* Every call of op1 on c comes before every call of op2.
Before(c, op1, op2) == \A i \in At(c, op1), j \in At(c, op2) : i < j
\* The codes started_cb and channel.stop were given.
StartedCodes(c) == [i \in DOMAIN CallsOf(c, "started_cb") |->
                      CallsOf(c, "started_cb")[i].ec]
StopCodes(c) == [i \in DOMAIN CallsOf(c, "channel.stop") |->
                   CallsOf(c, "channel.stop")[i].ec]
\* register_channel found the session stopped when c was registered.
RegisteredStopped(c) ==
    /\ Log(c) # <<>>
    /\ Log(c)[1] = Call("register_channel", "stopped", 0)
\* The version handshake of c completed with success.
HandshakeSucceeded(c) ==
    \E i \in At(c, "handle_handshake") : Log(c)[i].ec = success

\* ------------------------------------------------------------------ claims

\* C1: a register_channel call made while the session is stopped invokes
\* started_cb exactly once, with service_stopped, and does nothing else but
\* stop the channel: channel.start is not called, nonce and notify are not
\* assigned, nothing is put in the pending table, the peer store is not
\* called and stopped_cb is not installed as the stop subscription.
C1_StoppedSessionRejects ==
    \A c \in Channels :
      RegisteredStopped(c) =>
        /\ pc[c] = "done"
        /\ StartedCodes(c) = << service_stopped >>
        /\ Count(c, "channel.start") = 0
        /\ Count(c, "channel.set_nonce") = 0 /\ chan[c].nonce = 0
        /\ Count(c, "channel.set_notify") = 0 /\ chan[c].notify = "unset"
        /\ Count(c, "pending.store") = 0 /\ c \notin pending
        /\ Count(c, "network.store") = 0 /\ c \notin peers
        /\ Count(c, "channel.subscribe_stop") = 0 /\ chan[c].subs = 0

\* A channel registered on the outbound session after that session was
\* started and its stop callback fired.
C1_Witness ==
    \E c \in Channels :
      /\ RegisteredStopped(c)
      /\ owner[c] = "outbound"
      /\ \E i \in DOMAIN slog[owner[c]] : slog[owner[c]][i].op = "stopped_ = true"

\* C2: when pending_.exists completes for a channel of the inbound session
\* and a stored pending channel carries the peer's version nonce, the same
\* step stops the channel with accept_failed and gives accept_failed to
\* started_cb, and the peer store has not been and is not called for it.
C2_LoopbackRejected ==
    [][\A c \in Channels :
         (pc[c] = "exists" /\ pc'[c] # "exists"
            /\ \E d \in pending : chan[d].nonce = version[c].nonce)
         => /\ pc'[c] = "done"
            /\ chan'[c].stopped
            /\ SelectSeq(chan'[c].log, LAMBDA e : e.op = "started_cb")
                 = << Call("started_cb", accept_failed, 0) >>
            /\ SelectSeq(chan'[c].log, LAMBDA e : e.op = "channel.stop")
                 = << Call("channel.stop", accept_failed, 0) >>
            /\ SelectSeq(chan'[c].log, LAMBDA e : e.op = "network.store") = <<>>
            /\ c \notin peers']_vars

\* An inbound channel whose peer advertised the nonce of a stored pending
\* channel, after handle_is_pending ran.
C2_Witness ==
    \E c \in Channels :
      /\ owner[c] = "inbound"
      /\ HandshakeSucceeded(c)
      /\ version[c].nonce # 0
      /\ \E i \in At(c, "handle_is_pending") : Log(c)[i].ec = "true"

\* C3: a channel whose handshake succeeded with a version below the minimum
\* is never handed to the peer store, and when its registration ends it has
\* been stopped and started_cb has received accept_failed; every channel
\* handed to the peer store has a version of at least the minimum.
C3_LowVersionRejected ==
    \A c \in Channels :
      /\ (HandshakeSucceeded(c) /\ version[c].value < peer_minimum_version) =>
           /\ Count(c, "network.store") = 0 /\ c \notin peers
           /\ pc[c] \in {"exists", "done"}
           /\ pc[c] = "done" =>
                /\ StartedCodes(c) = << accept_failed >>
                /\ StopCodes(c) = << accept_failed >>
                /\ chan[c].stopped
      /\ (Count(c, "network.store") > 0 \/ c \in peers) =>
           version[c].value >= peer_minimum_version

\* An outbound and an inbound channel rejected for their version, the
\* inbound one after a pending lookup that found nothing.
C3_Witness ==
    \E c, d \in Channels :
      /\ owner[c] = "outbound" /\ owner[d] = "inbound"
      /\ HandshakeSucceeded(c) /\ HandshakeSucceeded(d)
      /\ version[c].value < peer_minimum_version
      /\ version[d].value < peer_minimum_version
      /\ StartedCodes(c) = << accept_failed >>
      /\ StartedCodes(d) = << accept_failed >>
      /\ \E i \in At(d, "handle_is_pending") : Log(d)[i].ec = "false"

StoreCodes(c) == {Log(c)[i + 1].ec : i \in {j \in At(c, "network.store") :
                                              j < Len(Log(c))}}
\* The registration of c ended with an error.
Rejected(c) == pc[c] = "done" /\ StartedCodes(c) # << success >>

\* C5 as stated: a channel for which network.store was called has stopped_cb
\* armed when its registration ends, and stopped_cb is never invoked for a
\* rejected channel.
C5_AsStated ==
    \A c \in Channels :
      /\ (pc[c] = "done" /\ Count(c, "network.store") > 0) =>
           Count(c, "channel.subscribe_stop") = 1
      /\ Rejected(c) => Count(c, "stopped_cb") = 0

\* C5, amended: a channel whose peer-store insertion completed with success
\* has stopped_cb armed (subscribed before started_cb, and either still
\* subscribed or already delivered once); a channel whose insertion failed
\* is stopped with the store's code and stopped_cb is not armed; for every
\* rejected channel neither do_remove nor stopped_cb ever runs.
C5_ArmedOnStoreSuccess ==
    \A c \in Channels :
      /\ (pc[c] = "done" /\ StoreCodes(c) = {success}) =>
           /\ Count(c, "channel.subscribe_stop") = 1
           /\ Before(c, "channel.subscribe_stop", "started_cb")
           /\ StartedCodes(c) = << success >>
           /\ chan[c].subs + Count(c, "stopped_cb") = 1
      /\ (pc[c] = "done" /\ StoreCodes(c) = {address_in_use}) =>
           /\ Count(c, "channel.subscribe_stop") = 0
           /\ StopCodes(c) = << address_in_use >>
           /\ StartedCodes(c) = << address_in_use >>
      /\ Rejected(c) =>
           /\ chan[c].subs = 0
           /\ Count(c, "do_remove") = 0
           /\ Count(c, "stopped_cb") = 0

\* One channel armed after a successful insertion, another rejected by the
\* peer store and then stopped by the transport as well.
C5_Witness ==
    \E c, d \in Channels :
      /\ pc[c] = "done" /\ StoreCodes(c) = {success} /\ chan[c].subs = 1
      /\ pc[d] = "done" /\ StoreCodes(d) = {address_in_use}

\* The registration of c went the outbound way: it passed the stopped test
\* of a session that is not incoming.
Outbound(c) == bound[c] = "unpend_handler"

\* C6 as stated: when started_cb runs for an outbound registration, the nonce
\* is 0 and the pending table no longer contains the channel.
C6_AsStated ==
    \A c \in Channels :
      (Outbound(c) /\ Log(c)[Len(Log(c))].op = "started_cb") =>
        /\ chan[c].nonce = 0
        /\ c \notin pending

\* C6, amended: for every outbound registration that passed the stopped
\* test, whatever its outcome, the nonce is reset to 0 and the removal from
\* the pending table is requested before started_cb is invoked; the table
\* no longer contains the channel once that removal has completed.
C6_UnpendBeforeSignal ==
    \A c \in Channels :
      (Outbound(c) /\ pc[c] = "done") =>
        /\ Count(c, "started_cb") = 1
        /\ Count(c, "pending.remove") = 1
        /\ \E i \in At(c, "channel.set_nonce") :
             /\ Log(c)[i].n = 0
             /\ \A j \in At(c, "pending.remove") : i < j
        /\ Before(c, "pending.remove", "started_cb")
        /\ chan[c].nonce = 0
        /\ c \in pending => chan[c].unpending
        /\ Count(c, "handle_unpend") = 1 => c \notin pending

\* Outbound registrations that ended with success, with the pending insert's
\* own failure, and with a handshake failure.
C6_Witness ==
    \E c, d \in Channels :
      /\ Outbound(c) /\ StartedCodes(c) = << success >>
      /\ Count(c, "handle_unpend") = 1
      /\ Outbound(d) /\ StartedCodes(d) \in {<< address_in_use >>, << bad_stream >>}
      /\ Count(d, "network.store") = 0

\* C7 as stated: a channel whose nonce is not 0 is stored in the pending
\* table.
C7_AsStated ==
    \A c \in Channels : chan[c].nonce # 0 => c \in pending

\* C7, amended: the nonce is not 0 only from register_channel's assignment,
\* which precedes the pending store, until do_unpend; in that interval the
\* channel is in the pending table once the store has completed.  Before the
\* registration and after do_unpend the nonce is 0, and a stored channel
\* with nonce 0 is one whose removal has been requested.
C7_NonceInterval ==
    \A c \in Channels :
      /\ chan[c].nonce # 0 =>
           /\ Outbound(c)
           /\ pc[c] \in {"pend", "start", "handshake", "store"}
           /\ pc[c] # "pend" => c \in pending
      /\ pc[c] \in {"new", "done"} => chan[c].nonce = 0
      /\ ~Outbound(c) => (chan[c].nonce = 0 /\ c \notin pending)
      /\ c \in pending => (chan[c].nonce # 0 \/ chan[c].unpending)

\* An outbound channel stored in the pending table with its nonce, while
\* another has been unpended and removed.
C7_Witness ==
    \E c, d \in Channels :
      /\ c \in pending /\ chan[c].nonce # 0
      /\ Outbound(d) /\ pc[d] = "done" /\ d \notin pending
      /\ Count(d, "handle_unpend") = 1 /\ Count(d, "channel.start") = 1

\* C8: when the channel's start callback fires with an error, the version
\* protocol is not attached or started, the peer store is not called, the
\* channel is stopped with that error and started_cb receives it.
C8_StartErrorPropagated ==
    \A c \in Channels :
      \A i \in At(c, "handle_channel_start") :
        Log(c)[i].ec # success =>
          /\ Count(c, "attach_protocol_version") = 0
          /\ Count(c, "protocol_version.start") = 0
          /\ Count(c, "network.store") = 0
          /\ StopCodes(c) = << Log(c)[i].ec >>
          /\ StartedCodes(c) = << Log(c)[i].ec >>

\* C9: a start call on a session whose stopped flag is false invokes the
\* handler once, with operation_failed, leaves the flag false and installs
\* no stop subscription on the facade.
C9_StartWhileRunning ==
    [][\A s \in Sessions :
         (starts'[s] = starts[s] + 1 /\ ~stopped_[s]) =>
           /\ slog'[s] = Append(slog[s], Call("handler", operation_failed, 0))
           /\ stopped_'[s] = FALSE
           /\ net_subs' = net_subs]_vars

\* A session started twice while the facade runs: the second call failed.
C9_Witness ==
    \E s \in Sessions :
      /\ starts[s] = 2
      /\ ~stopped_[s]
      /\ slog[s][Len(slog[s])] = Call("handler", operation_failed, 0)

\* The calls of op among the first i calls of session s.
SCount(s, op, i) == Cardinality({j \in 1..i : slog[s][j].op = op})
SuccessAt(s) == {i \in DOMAIN slog[s] : slog[s][i] = Call("handler", success, 0)}

\* C10: every success a start handler observes comes after the flag was
\* cleared and the stop callback was subscribed on the facade in that call;
\* a session that has signalled success and is not stopped has its stop
\* subscription installed, so once the facade's stop signal has fired every
\* session is stopped.
C10_SubscribedBeforeSuccess ==
    \A s \in Sessions :
      /\ \A i \in SuccessAt(s) :
           /\ SCount(s, "network.subscribe_stop", i)
                = Cardinality({j \in SuccessAt(s) : j <= i})
           /\ SCount(s, "stopped_ = false", i)
                = Cardinality({j \in SuccessAt(s) : j <= i})
      /\ (SuccessAt(s) # {} /\ ~stopped_[s]) => net_subs[s] = 1
      /\ net_stopped => stopped_[s]

\* A session that signalled success and was then stopped by the facade's
\* stop signal.
C10_Witness ==
    \E s \in Sessions :
      /\ net_stopped
      /\ stopped_[s]
      /\ Len(slog[s]) = 4
      /\ slog[s][3] = Call("handler", success, 0)
      /\ slog[s][4].op = "stopped_ = true"

\* C11: the stopped flag of a session is monotonic over any sequence of start
\* calls and facade stop signals: it is cleared at most once and set again at
\* most once, and a start issued after the stop callback has fired leaves the
\* session stopped and clears nothing.
C11_FlagMonotonic ==
    \A s \in Sessions :
      /\ SCount(s, "stopped_ = false", Len(slog[s])) <= 1
      /\ SCount(s, "stopped_ = true", Len(slog[s])) <= 1
      /\ \A i, j \in DOMAIN slog[s] :
           (slog[s][i].op = "stopped_ = true" /\ i < j)
             => slog[s][j].op # "stopped_ = false"
      /\ (\E i \in DOMAIN slog[s] : slog[s][i].op = "stopped_ = true")
           => stopped_[s]

\* The code the channel c stopped with: the code of the session's
\* channel.stop when it made one, the transport's code otherwise.
ChannelStopCode(c) ==
    IF StopCodes(c) # << >> THEN StopCodes(c)[1] ELSE channel_stopped

\* C12 as stated: a channel whose registration completed with success and
\* that has stopped, before or after the stop subscription was installed,
\* has had stopped_cb invoked exactly once with the channel's stop code, and
\* network.remove requested exactly once, before stopped_cb.
C12_AsStated ==
    \A c \in Channels :
      (StartedCodes(c) = << success >> /\ chan[c].stopped) =>
        /\ CallsOf(c, "stopped_cb")
             = << Call("stopped_cb", ChannelStopCode(c), 0) >>
        /\ Count(c, "network.remove") = 1
        /\ Before(c, "network.remove", "stopped_cb")

\* C12: a channel whose registration completed with success has its stop
\* subscription requested once; while it runs stopped_cb has not fired and no
\* removal was requested; once it has stopped, stopped_cb has fired exactly
\* once and network.remove was requested exactly once, before stopped_cb.
\* stopped_cb carries the channel's stop code when the channel stopped after
\* the subscription was installed; when the channel had stopped before, the
\* subscription fires at once, ahead of started_cb, with service_stopped.
C12_StoppedOnce ==
    \A c \in Channels :
      StartedCodes(c) = << success >> =>
        /\ Count(c, "channel.subscribe_stop") = 1
        /\ ~chan[c].stopped =>
             /\ Count(c, "stopped_cb") = 0
             /\ Count(c, "network.remove") = 0
             /\ chan[c].subs = 1
        /\ chan[c].stopped =>
             /\ Count(c, "stopped_cb") = 1
             /\ Count(c, "network.remove") = 1
             /\ Before(c, "network.remove", "stopped_cb")
             /\ chan[c].subs = 0
             /\ CallsOf(c, "stopped_cb")[1].ec =
                  IF Before(c, "stopped_cb", "started_cb")
                    THEN service_stopped
                    ELSE ChannelStopCode(c)

\* A channel that stopped while its peer-store insertion was in flight and
\* whose registration then completed with success.
C12_Witness ==
    \E c \in Channels :
      /\ StartedCodes(c) = << success >>
      /\ chan[c].stopped
      /\ Count(c, "stopped_cb") = 1
      /\ Before(c, "stopped_cb", "started_cb")

\* A channel that stopped after its registration completed with success.
C12_WitnessLater ==
    \E c \in Channels :
      /\ StartedCodes(c) = << success >>
      /\ chan[c].stopped
      /\ Count(c, "stopped_cb") = 1
      /\ Before(c, "started_cb", "stopped_cb")

\* The calls of op in the log of resource r, and their positions.
RAt(r, op) == {i \in DOMAIN rsrc[r].log : rsrc[r].log[i].op = op}
\* The resources created so far.
Created == {r \in Resources : rsrc[r].log # << >>}

\* C13: create_acceptor and create_connector subscribe a stop handler for the
\* new resource on the facade's stop signal, once, before they return it;
\* until the stop signal fires the handler is held and stop() has not been
\* invoked; once it has fired, every resource created so far has had its own
\* stop() invoked exactly once, whatever the state of the session (idle,
\* running or stopping) was when the resource was created.
C13_ResourcesStopped ==
    \A r \in Created :
      LET kind == rsrc[r].kind
          handler == IF kind = "acceptor" THEN "do_stop_acceptor"
                     ELSE "do_stop_connector"
          stop == IF kind = "acceptor" THEN "acceptor.stop" ELSE "connector.stop"
      IN  /\ kind \in {"acceptor", "connector"}
          /\ rsrc[r].log[1].ec \in {"idle", "running", "stopping"}
          /\ Cardinality(RAt(r, "network.subscribe_stop")) = 1
          /\ Cardinality(RAt(r, "return")) = 1
          /\ \A i \in RAt(r, "network.subscribe_stop"), j \in RAt(r, "return") :
               i < j /\ rsrc[r].log[i].ec = handler /\ rsrc[r].log[j].ec = kind
          /\ ~net_stopped =>
               /\ rsrc[r].stops = 0
               /\ rsrc[r].subs = << handler >>
               /\ RAt(r, "acceptor.stop") \cup RAt(r, "connector.stop") = {}
          /\ net_stopped =>
               /\ rsrc[r].stops = 1
               /\ rsrc[r].subs = << >>
               /\ Cardinality(RAt(r, stop)) = 1
               /\ RAt(r, "acceptor.stop") \cup RAt(r, "connector.stop")
                    = RAt(r, stop)

\* The stop signal has fired on an acceptor created by a running session and
\* a connector created by an idle one.
C13_Witness ==
    /\ net_stopped
    /\ \E r, q \in Created :
         /\ rsrc[r].kind = "acceptor" /\ rsrc[r].log[1].ec = "running"
         /\ rsrc[q].kind = "connector" /\ rsrc[q].log[1].ec = "idle"
         /\ rsrc[r].stops = 1 /\ rsrc[q].stops = 1

\* A resource created by a stopping session, after the stop signal fired.
C13_WitnessStopping ==
    \E r \in Created : rsrc[r].log[1].ec = "stopping" /\ rsrc[r].stops = 1

\* The handlers waiting on the subscriber of kind k, and on any subscriber.
Waiting(k) == {hub[k].waiters[i] : i \in DOMAIN hub[k].waiters}
Outstanding == UNION {Waiting(k) : k \in Subscribers}
\* What a handler receives from a relay of (ec, v).
Relayed(ec, v) == [by |-> "relay", code |-> ec, value |-> v]

\* C14: load(type, stream) with type unknown, or any value that names none
\* of the 21 kinds, returns not_found and touches no subscriber: no waiter
\* list changes and no handler is invoked.
C14_UnknownKindNotFound ==
    [][\A type \in MessageTypes \ Subscribers, stream \in Streams :
         Load(type, stream) =>
           /\ ret' = not_found
           /\ hub' = hub
           /\ hnd' = hnd]_vars

\* load returned not_found while a handler waits on a running subscriber.
C14_Witness ==
    /\ ret = not_found
    /\ \E k \in Subscribers : ~hub[k].stopped /\ Waiting(k) # {}

\* C15: broadcast(c) invokes every handler that is outstanding on any of the
\* 21 kinds when it begins with (c, default value), each exactly once; when
\* it completes no handler is left waiting on any kind, and handlers that
\* were not waiting received nothing.
C15_BroadcastWakesAll ==
    [][\A ec \in BroadcastCodes :
         Broadcast(ec) =>
           /\ \A k \in Subscribers :
                hub'[k].waiters = << >> /\ hub'[k].stopped = hub[k].stopped
           /\ \A h \in Handlers :
                hnd'[h].got = IF h \in Outstanding
                                THEN Append(hnd[h].got, Relayed(ec, NoValue))
                                ELSE hnd[h].got]_vars

\* Every handler has been woken by a broadcast of channel_stopped.
C15_Witness ==
    \A h \in Handlers : hnd[h].got = << Relayed(channel_stopped, NoValue) >>

\* C16: one load(K, stream) on a known kind K, block included, delivers to
\* every handler waiting on K exactly once: (success, the decoded message of
\* K) when the stream decodes, the decoder's code when it does not; load
\* returns that code; the waiters of K are drained and the handlers waiting
\* on other kinds receive nothing and keep waiting.
C16_LoadDelivers ==
    [][\A k \in Subscribers, stream \in Streams :
         Load(k, stream) =>
           LET code == IF stream = "wellformed" THEN success ELSE bad_stream
           IN  /\ ret' = code
               /\ hub' = [hub EXCEPT ![k].waiters = << >>]
               /\ \A h \in Handlers \ Waiting(k) : hnd'[h] = hnd[h]
               /\ \A h \in Waiting(k) :
                    /\ Len(hnd'[h].got) = Len(hnd[h].got) + 1
                    /\ SubSeq(hnd'[h].got, 1, Len(hnd[h].got)) = hnd[h].got
                    /\ hnd'[h].got[Len(hnd'[h].got)].code = code
                    /\ stream = "wellformed" =>
                         hnd'[h].got[Len(hnd'[h].got)].value = Payload(k)]_vars

\* A handler received a decoded block while the other handler keeps waiting
\* on another kind.
C16_Witness ==
    /\ ret = success
    /\ \E h \in Handlers :
         /\ hnd[h].got = << Relayed(success, Payload("block")) >>
         /\ \E g \in Handlers \ {h}, k \in Subscribers \ {"block"} :
              g \in Waiting(k) /\ hnd[g].got = << >>

\* A handler received the decoder's error from a load.
C16_WitnessFailure ==
    /\ ret = bad_stream
    /\ \E h \in Handlers : hnd[h].got = << Relayed(bad_stream, NoValue) >>

\* Handler h has received the code of the broadcast.
Received(h) ==
    \E i \in DOMAIN hnd[h].got : hnd[h].got[i] = Relayed(bcast.code, NoValue)
\* Handler h was invoked by subscribe on a stopped subscriber, or by a load.
DeliveredOtherwise(h) ==
    \E i \in DOMAIN hnd[h].got :
      \/ hnd[h].got[i].by = "subscribe"
      \/ hnd[h].got[i].code \in {success, bad_stream}

\* C17 as stated: with subscribe and load calls running beside broadcast(c),
\* a handler subscribed before the broadcast began has received c when the
\* broadcast is over, unless a load or a stopped subscriber served it first;
\* a handler subscribed after the broadcast began, while it was under way or
\* when it was over, has not received c.
C17_AsStated ==
    \A h \in Handlers :
      /\ (hnd[h].phase = "before" /\ BroadcastOver)
           => (Received(h) \/ DeliveredOtherwise(h))
      /\ hnd[h].phase \in {"during", "after"} => ~Received(h)

\* C17: broadcast(c) relays to the subscribers one after the other, in the
\* order address .. version, and nothing excludes subscribe and load calls
\* between two relays.  A handler subscribed on a kind before the broadcast
\* relays to that kind, be it before the broadcast began or while it was
\* relaying to earlier kinds, has received c once the broadcast has passed
\* its kind, unless a load or a stopped subscriber served it first; a handler
\* subscribed on a kind after the broadcast relayed to it never receives c.
C17_RelayOrder ==
    /\ \A h \in Handlers :
         /\ (hnd[h].due /\ BroadcastOver)
              => (Received(h) \/ DeliveredOtherwise(h))
         /\ (hnd[h].subscribed /\ ~hnd[h].due) => ~Received(h)
         /\ hnd[h].phase = "before" => hnd[h].due
         /\ hnd[h].phase = "after" => ~hnd[h].due
         /\ Len(hnd[h].got) <= 1
    /\ \A k \in Subscribers : \A h \in Waiting(k) :
         hnd[h].due => bcast.pc <= KindIndex(k)

\* A handler subscribed on a kind while the broadcast was relaying to
\* earlier kinds, and then received the code of the broadcast.
C17_Witness ==
    \E h \in Handlers :
      /\ hnd[h].phase = "during"
      /\ hnd[h].due
      /\ Received(h)
      /\ BroadcastOver

\* A handler subscribed during the broadcast on a kind already relayed to.
C17_WitnessPassed ==
    \E h \in Handlers :
      /\ hnd[h].phase = "during"
      /\ ~hnd[h].due
      /\ hnd[h].got = << >>
      /\ BroadcastOver

\* The code the registration of c ends with: the code of the first step that
\* did not succeed, success when every step succeeded.
TerminalCode(c) ==
    IF RegisteredStopped(c) THEN service_stopped
    ELSE IF \E i \in At(c, "handle_pend") : Log(c)[i].ec # success
      THEN Log(c)[CHOOSE i \in At(c, "handle_pend") : TRUE].ec
    ELSE IF \E i \in At(c, "handle_handshake") : Log(c)[i].ec # success
      THEN Log(c)[CHOOSE i \in At(c, "handle_handshake") : TRUE].ec
    ELSE IF Count(c, "network.store") = 0 THEN accept_failed
    ELSE CHOOSE ec \in StoreCodes(c) : TRUE

\* C18: when every collaborator invokes the completion callback of each call
\* it was given, every register_channel call leads to started_cb: it is never
\* invoked twice, it has been invoked exactly once when the pipeline has
\* ended, with the code the registration ended with, and every registration
\* that has begun does end: time and again no registration is in flight.
C18_StartedEventually ==
    /\ [](\A c \in Channels :
            /\ Count(c, "started_cb") <= 1
            /\ pc[c] # "done" => Count(c, "started_cb") = 0
            /\ pc[c] = "done" => StartedCodes(c) = << TerminalCode(c) >>)
    /\ []<>(\A c \in Channels : pc[c] \in {"new", "done"})

\* Both registrations have ended, one with success and one rejected for the
\* peer's version.
C18_Witness ==
    \E c, d \in Channels :
      /\ pc[c] = "done" /\ StartedCodes(c) = << success >>
      /\ pc[d] = "done" /\ StartedCodes(d) = << accept_failed >>
      /\ Count(d, "handle_is_pending") = 1

\* The registration of c passed the stopped test of register_channel.
RegisteredRunning(c) ==
    /\ Log(c) # << >>
    /\ Log(c)[1] = Call("register_channel", "running", 0)
\* The registration of c waits for a completion.
InFlight(c) == pc[c] \notin {"new", "done"}

\* C19: session stop is soft.  The facade's stop signal changes no
\* registration in flight.  A registration that passed the stopped test never
\* ends with service_stopped: it ends with the code of the first collaborator
\* that failed, and when its peer-store insertion succeeds it subscribes
\* stopped_cb and signals success, stopped session or not; every completion
\* delivered to it while the session is stopped moves it on as the handler
\* decides, to the next step or to its end.  A registration that begins while
\* the session is stopped ends at once with service_stopped.
C19_SoftStop ==
    /\ [](\A c \in Channels :
            /\ RegisteredStopped(c) => StartedCodes(c) = << service_stopped >>
            /\ RegisteredRunning(c) =>
                 /\ StartedCodes(c) # << service_stopped >>
                 /\ pc[c] = "done" => StartedCodes(c) = << TerminalCode(c) >>
                 /\ StoreCodes(c) = {success} =>
                      /\ StartedCodes(c) = << success >>
                      /\ Count(c, "channel.subscribe_stop") = 1
                      /\ Count(c, "channel.stop") = 0)
    /\ [][/\ net_stopped' # net_stopped => (pc' = pc /\ chan' = chan)
          /\ \A c \in Channels :
               (InFlight(c) /\ stopped_[owner[c]] /\ pc'[c] # pc[c]) =>
                 /\ ~chan'[c].stopped => pc'[c] # "done" \/ c \in peers'
                 /\ (pc[c] = "store" /\ c \in peers') =>
                      /\ pc'[c] = "done"
                      /\ Log(c)'[Len(Log(c)')] = Call("started_cb", success, 0)
                      /\ chan'[c].subs = 1 \/ chan[c].stopped]_vars

\* The session has stopped while a registration that passed the stopped test
\* waits for its peer-store insertion, and a later registration on the same
\* session was refused.
C19_Witness ==
    \E c, d \in Channels :
      /\ RegisteredRunning(c) /\ pc[c] = "store"
      /\ owner[d] = owner[c] /\ stopped_[owner[c]] /\ net_stopped
      /\ RegisteredStopped(d) /\ StartedCodes(d) = << service_stopped >>

\* The steps of a registration, in the order the pipeline takes them.
PipelineOrder ==
    << "pending.store", "handle_pend", "channel.start", "handle_channel_start",
       "protocol_version.start", "handle_handshake", "pending.exists",
       "handle_is_pending", "network.store", "do_unpend", "handle_start",
       "channel.subscribe_stop", "started_cb" >>
PipelineSteps == {PipelineOrder[i] : i \in DOMAIN PipelineOrder}
PipelineIndex ==
    [op \in PipelineSteps |->
       CHOOSE i \in DOMAIN PipelineOrder : PipelineOrder[i] = op]
\* The steps the registration of c has taken, in the order it took them.
StepsTaken(c) == SelectSeq(Log(c), LAMBDA e : e.op \in PipelineSteps)
\* A call of op on c has a call of the earlier op with code ec before it.
After(c, op, earlier, ec) ==
    \A j \in At(c, op) : \E i \in At(c, earlier) : i < j /\ Log(c)[i].ec = ec

\* C20: the steps of one registration are strictly serialized: each is taken
\* at most once and only after the steps before it, from the completion of
\* the previous one: (outbound) pending insert, channel.start, the version
\* handshake, (inbound) the pending-table lookup, the version check, the
\* peer-store insert, (outbound) unpend, the stop subscription, started_cb.
\* network.store is called only after the handshake completed with success,
\* channel.subscribe_stop only after the peer-store insert completed with
\* success, and an outbound channel is in the pending table from before
\* channel.start until after the peer-store callback.
C20_Serialized ==
    \A c \in Channels :
      /\ LET taken == StepsTaken(c)
         IN  \A i \in 1..(Len(taken) - 1) :
               PipelineIndex[taken[i].op] < PipelineIndex[taken[i + 1].op]
      /\ Count(c, "pending.store") > 0 <=> (Outbound(c) /\ RegisteredRunning(c))
      /\ Count(c, "do_unpend") > 0 => Outbound(c)
      /\ Count(c, "pending.exists") > 0 => ~Outbound(c)
      /\ After(c, "channel.start", "handle_pend", success)
      /\ \A j \in At(c, "protocol_version.start") :
           At(c, "channel.start") # {} /\ At(c, "handle_channel_start") # {}
      /\ After(c, "pending.exists", "handle_handshake", success)
      /\ After(c, "handle_is_pending", "handle_handshake", success)
      /\ After(c, "network.store", "handle_handshake", success)
      /\ After(c, "network.store", "handle_is_pending", "false")
      /\ Count(c, "network.store") > 0 => version[c].value >= peer_minimum_version
      /\ Count(c, "channel.subscribe_stop") > 0 =>
           /\ StoreCodes(c) = {success}
           /\ After(c, "channel.subscribe_stop", "handle_start", success)
      /\ (Outbound(c) /\ pc[c] \in {"start", "handshake", "store"}) =>
           c \in pending
      /\ (Outbound(c) /\ c \in pending) => chan[c].nonce # 0 \/ chan[c].unpending

\* An outbound registration went through every step to success and the
\* removal from the pending table, requested by do_unpend, has not completed.
C20_Witness ==
    \E c \in Channels :
      /\ Outbound(c)
      /\ StartedCodes(c) = << success >>
      /\ c \in pending
      /\ \A i \in DOMAIN PipelineOrder :
           PipelineOrder[i] \notin {"pending.exists"} =>
             Count(c, PipelineOrder[i]) = 1

\* An inbound registration went through every step to success.
C20_WitnessInbound ==
    \E c \in Channels :
      /\ ~Outbound(c)
      /\ StartedCodes(c) = << success >>
      /\ \A i \in DOMAIN PipelineOrder :
           PipelineOrder[i] \notin {"pending.store", "do_unpend"} =>
             Count(c, PipelineOrder[i]) = 1

====
